---------------------------- MODULE Spec2Model ----------------------------
(***************************************************************************)
(* A model of the gacha-map application: the UI shell of src/App.tsx (start *)
(* and end point, current result list, history, loading flag, and the       *)
(* asynchronous gacha roll) and the parts of src/services/overpassService.ts*)
(* the roll calls.                                                          *)
(*                                                                          *)
(* Coordinates are integers counting 1/60000 of a degree, so that the       *)
(* interpolation ratios i/6 of a roll's five sample points are exact.       *)
(* A Point is modelled without its display name.                            *)
(*                                                                          *)
(* Spec and FairSpec are the application. SelectSpec and DedupSpec examine  *)
(* the random selection and the gathering of one roll on their own, over    *)
(* all their inputs up to a bound, through the variables call and ret.      *)
(***************************************************************************)
EXTENDS Integers, Sequences, FiniteSets, TLC

VARIABLES
    startPoint,       \* useState<Point | null>
    endPoint,         \* useState<Point | null>
    gachaSpots,       \* useState<Spot[]>: the current result list
    allGachaHistory,  \* useState<Spot[]>: the history list
    isLoading,        \* useState(false)
    rolls,            \* the invocations of handleGachaRoll, by order of trigger
    rollCount,        \* how many rolls have been triggered
    clicks,           \* map clicks since the session began or the last reset
    wasReset,         \* whether handleReset has run
    selectedCategory, \* useState<Spot['category']>('restaurant')
    mapView,          \* the center and zoom of the Leaflet map on screen
    userViewRef,      \* MapComponent's userViewRef.current
    call,             \* the arguments of a function examined on its own
    ret               \* what that function returned

vars == <<startPoint, endPoint, gachaSpots, allGachaHistory, isLoading,
          rolls, rollCount, clicks, wasReset, selectedCategory, mapView,
          userViewRef, call, ret>>

\* The variables of the application.
app == <<startPoint, endPoint, gachaSpots, allGachaHistory, isLoading,
         rolls, rollCount, clicks, wasReset, selectedCategory, mapView,
         userViewRef>>

\* The variables used to examine one function on its own.
unit == <<call, ret>>

\* ------------------------------------------------------------------ bounds

\* The number of gacha rolls triggered in one behaviour.
MaxRolls == 2

\* The number of map clicks counted between two resets.
MaxClicks == 3

\* ------------------------------------------------------- program constants

\* calculateNearDestinationPoints(startPoint, endPoint, 5)
MidPointCount == 5

\* selectRandomMidPoints(allMidPoints, 3)
SelectedMidPointCount == 3

\* selectRandomSpotsWithoutRating(ratedSpots, 3)
SelectedSpotCount == 3

\* ------------------------------------------------------------- basic values

\* The value of a useState<Point | null> that holds no point.
NULL == [null |-> TRUE]

\* A tag that an element does not carry (undefined in the tag map).
NoTag == "undefined"

\* Free text (a name, a brand, an operator, an identifier) is the sequence of
\* its characters; NoText is the undefined one.
NoText == <<"undefined">>

Pt(lat, lng) == [lat |-> lat, lng |-> lng]

\* useState initial values: Shinjuku station and Shibuya station.
InitialStartPoint == Pt(2141376, 8381502)
InitialEndPoint == Pt(2139480, 8382096)

\* The coordinates a map click may report (Tokyo station).
ClickPoints == {Pt(2140872, 8386026)}

\* What the map shows: setView([35.6738, 139.6967], 13) after construction,
\* and the views a user may move it to (the initial one among them).
View(center, zoom) == [center |-> center, zoom |-> zoom]
DefaultView == View(Pt(2140428, 8381802), 13)
UserViews == {DefaultView, View(Pt(2140872, 8386026), 15)}

\* The options of the category select.
Categories ==
    {"restaurant", "cafe", "tourist_attraction", "shop", "gas_station", "all"}

\* The option a user changes the select to.
CategoryChoices == {"cafe"}

\* ------------------------------------------------- sequences (Array helpers)

\* Array.prototype.findIndex(s => s.id === id), 1-based; 0 when there is none.
RECURSIVE FindIndexFrom(_, _, _)
FindIndexFrom(s, id, i) ==
    IF i > Len(s) THEN 0
    ELSE IF s[i].id = id THEN i
    ELSE FindIndexFrom(s, id, i + 1)

\* A search that gives the last position holding the identifier.
FindIndex_Last(s, id) ==
    IF \E i \in 1..Len(s) : s[i].id = id
    THEN CHOOSE i \in 1..Len(s) :
             s[i].id = id /\ \A j \in (i + 1)..Len(s) : s[j].id /= id
    ELSE 0

FindIndex(s, id) == FindIndexFrom(s, id, 1)

\* Array.prototype.some(existingSpot => existingSpot.id === id).
SomeId(s, id) == \E i \in 1..Len(s) : s[i].id = id

\* An assignment that copies a[j] over a[i] and loses a[i].
Swap_Overwrites(a, i, j) == [a EXCEPT ![i] = a[j]]

\* [a[i], a[j]] = [a[j], a[i]] on 1-based positions.
Swap(a, i, j) == [a EXCEPT ![i] = a[j], ![j] = a[i]]

\* ------------------------------------------------------- random selection

\* The outcomes of the random draws of one Fisher-Yates shuffle of n items:
\* d[i] is the value of Math.floor(Math.random() * (i + 1)) at loop index i
\* (0-based, i = n-1 down to 1), any integer of 0..i.
Draws(n) == {d \in [1..(n - 1) -> 0..(n - 1)] : \A i \in 1..(n - 1) : d[i] <= i}

\* The loop of the shuffle from 0-based index i down to 1: the swap at index
\* i, then the rest of the loop on the swapped array (bound as a value, so
\* that each swap is computed once).
RECURSIVE ShuffleFrom(_, _, _)
ShuffleFrom(shuffled, i, d) ==
    IF i <= 0 THEN shuffled
    ELSE CHOOSE result \in {ShuffleFrom(swapped, i - 1, d) :
                                swapped \in {Swap(shuffled, i + 1, d[i] + 1)}} : TRUE

\* selectRandomMidPoints(midPoints, count) under the draws d.
SelectRandomMidPoints(midPoints, count, d) ==
    IF Len(midPoints) <= count THEN midPoints
    ELSE SubSeq(ShuffleFrom(midPoints, Len(midPoints) - 1, d), 1, count)

\* A selection that shuffles and does not cut the list to count entries.
SelectRandomSpotsWithoutRating_NoSlice(spots, count, d) ==
    IF Len(spots) <= count THEN spots
    ELSE ShuffleFrom(spots, Len(spots) - 1, d)

\* selectRandomSpotsWithoutRating(spots, count) under the draws d.
SelectRandomSpotsWithoutRating(spots, count, d) ==
    IF Len(spots) <= count THEN spots
    ELSE SubSeq(ShuffleFrom(spots, Len(spots) - 1, d), 1, count)

\* ------------------------------------------------------ roll: pure steps

\* An interpolation whose ratios are i / (count + 1): it begins at the start.
CalculateNearDestinationPoints_FromStart(start, end, count) ==
    [k \in 1..count |->
        Pt(start.lat + ((end.lat - start.lat) * (k - 1)) \div (count + 1),
           start.lng + ((end.lng - start.lng) * (k - 1)) \div (count + 1))]

\* calculateNearDestinationPoints(start, end, count): the point at ratio
\* (i + 1) / (count + 1), for i = 0 .. count-1.
CalculateNearDestinationPoints(start, end, count) ==
    [k \in 1..count |->
        Pt(start.lat + ((end.lat - start.lat) * k) \div (count + 1),
           start.lng + ((end.lng - start.lng) * k) \div (count + 1))]

\* allSpots.filter((spot, index, self) =>
\*     index === self.findIndex(s => s.id === spot.id))
RECURSIVE UniqueFrom(_, _)
UniqueFrom(allSpots, index) ==
    IF index > Len(allSpots) THEN <<>>
    ELSE (IF index = FindIndex(allSpots, allSpots[index].id)
          THEN <<allSpots[index]>> ELSE <<>>) \o UniqueFrom(allSpots, index + 1)

UniqueSpots(allSpots) == UniqueFrom(allSpots, 1)

\* selectedSpots.filter(spot => !prev.some(e => e.id === spot.id))
RECURSIVE NewSpotsFrom(_, _, _)
NewSpotsFrom(prev, selectedSpots, index) ==
    IF index > Len(selectedSpots) THEN <<>>
    ELSE (IF SomeId(prev, selectedSpots[index].id) THEN <<>>
          ELSE <<selectedSpots[index]>>)
         \o NewSpotsFrom(prev, selectedSpots, index + 1)

NewSpots(prev, selectedSpots) == NewSpotsFrom(prev, selectedSpots, 1)

\* An updater that leaves the history as it was.
MergeHistory_KeepsPrev(prev, selectedSpots) == prev

\* An updater that appends without the duplicate check.
MergeHistory_AppendsAll(prev, selectedSpots) == prev \o selectedSpots

\* The updater passed to setAllGachaHistory: [...prev, ...newSpots].
MergeHistory(prev, selectedSpots) == prev \o NewSpots(prev, selectedSpots)

\* ------------------------------------------------------- the query service

\* A query builder that gives the cafe category the restaurant filters.
QueryFilters_CafeAsRestaurant(category) ==
    CASE category = "restaurant" \/ category = "cafe" ->
             <<<<"amenity", "restaurant">>, <<"amenity", "fast_food">>>>
      [] category = "tourist_attraction" ->
             <<<<"tourism", "attraction">>, <<"tourism", "museum">>>>
      [] category = "gas_station" -> <<<<"amenity", "fuel">>>>
      [] category = "shop" -> <<<<"shop">>>>
      [] OTHER ->
             <<<<"amenity", "restaurant">>, <<"amenity", "cafe">>,
               <<"amenity", "fast_food">>, <<"tourism", "attraction">>,
               <<"tourism", "museum">>, <<"amenity", "fuel">>, <<"shop">>>>

\* buildOverpassQuery(bbox, category): the node filters of the query, in the
\* order of the query text; <<key, value>> is node["key"="value"], <<key>>
\* is node["key"].
QueryFilters(category) ==
    CASE category = "restaurant" ->
             <<<<"amenity", "restaurant">>, <<"amenity", "fast_food">>>>
      [] category = "cafe" -> <<<<"amenity", "cafe">>>>
      [] category = "tourist_attraction" ->
             <<<<"tourism", "attraction">>, <<"tourism", "museum">>>>
      [] category = "gas_station" -> <<<<"amenity", "fuel">>>>
      [] category = "shop" -> <<<<"shop">>>>
      [] OTHER ->
             <<<<"amenity", "restaurant">>, <<"amenity", "cafe">>,
               <<"amenity", "fast_food">>, <<"tourism", "attraction">>,
               <<"tourism", "museum">>, <<"amenity", "fuel">>, <<"shop">>>>

\* calculateMidPoint(start, end)
CalculateMidPoint(start, end) ==
    Pt((start.lat + end.lat) \div 2, (start.lng + end.lng) \div 2)

\* The request that searchSpots(startPoint, endPoint, radius, category)
\* posts: the bounding box of the query is the square of the radius around
\* center (its corners are not computed here), with the filters of the category.
SearchRequest(start, end, radius, category) ==
    [center |-> CalculateMidPoint(start, end), radius |-> radius,
     filters |-> QueryFilters(category)]

\* A tag value that a JavaScript condition takes as true.
Truthy(t) == t /= NoTag /\ t /= ""

\* A free-text value that a JavaScript condition takes as true.
HasText(t) == t /= NoText /\ t /= <<>>

\* String.prototype.includes
Includes(s, t) ==
    \E i \in 0..(Len(s) - Len(t)) : SubSeq(s, i + 1, i + Len(t)) = t

\* The decimal digits of a natural number, as a template literal prints it.
RECURSIVE Decimal(_)
Decimal(n) ==
    LET digit == <<"0", "1", "2", "3", "4", "5", "6", "7", "8", "9">>
    IN IF n < 10 THEN <<digit[n + 1]>>
       ELSE Decimal(n \div 10) \o <<digit[(n % 10) + 1]>>

\* commonChains, in the order of the list: the entries in Latin script (the
\* names of the model are in Latin script and include none of the others).
CommonChains ==
    <<<<"M", "c", "D", "o", "n", "a", "l", "d">>,
      <<"S", "t", "a", "r", "b", "u", "c", "k", "s">>,
      <<"7", "-", "E", "l", "e", "v", "e", "n">>,
      <<"F", "a", "m", "i", "l", "y", "M", "a", "r", "t">>,
      <<"L", "a", "w", "s", "o", "n">>,
      <<"G", "u", "s", "t", "o">>,
      <<"D", "o", "u", "t", "o", "r">>,
      <<"T", "u", "l", "l", "y", "'", "s">>,
      <<"K", "F", "C">>,
      <<"B", "u", "r", "g", "e", "r", " ", "K", "i", "n", "g">>,
      <<"M", "O", "S", " ", "B", "U", "R", "G", "E", "R">>,
      <<"C", "O", "C", "O", "'", "S">>,
      <<"D", "e", "n", "n", "y", "'", "s">>>>

\* majorChains: the entries in Latin script.
MajorChains ==
    {<<"M", "c", "D", "o", "n", "a", "l", "d">>,
     <<"G", "u", "s", "t", "o">>,
     <<"K", "F", "C">>,
     <<"B", "u", "r", "g", "e", "r", " ", "K", "i", "n", "g">>,
     <<"7", "-", "E", "l", "e", "v", "e", "n">>,
     <<"F", "a", "m", "i", "l", "y", "M", "a", "r", "t">>,
     <<"L", "a", "w", "s", "o", "n">>,
     <<"C", "O", "C", "O", "'", "S">>,
     <<"D", "e", "n", "n", "y", "'", "s">>}

\* isMajorChain(chainName)
IsMajorChain(chainName) == \E m \in MajorChains : Includes(chainName, m)

\* The loop of detectChain over commonChains, from position index on.
RECURSIVE MatchChainFrom(_, _)
MatchChainFrom(name, index) ==
    IF index > Len(CommonChains)
    THEN [isChain |-> FALSE, chainName |-> NoText, isMajorChain |-> FALSE]
    ELSE IF Includes(name, CommonChains[index])
    THEN [isChain |-> TRUE, chainName |-> CommonChains[index],
          isMajorChain |-> IsMajorChain(CommonChains[index])]
    ELSE MatchChainFrom(name, index + 1)

\* detectChain(tags)
DetectChain(tags) ==
    IF HasText(tags.brand)
    THEN [isChain |-> TRUE, chainName |-> tags.brand,
          isMajorChain |-> IsMajorChain(tags.brand)]
    ELSE IF HasText(tags.operator)
    THEN [isChain |-> TRUE, chainName |-> tags.operator,
          isMajorChain |-> IsMajorChain(tags.operator)]
    ELSE MatchChainFrom(IF HasText(tags.name) THEN tags.name ELSE <<>>, 1)

\* The tags of an element that the application reads: the four given ones,
\* and no brand, operator, phone, website or opening_hours tag.
Tags(name, amenity, tourism, shop) ==
    [name |-> name, amenity |-> amenity, tourism |-> tourism, shop |-> shop,
     brand |-> NoText, operator |-> NoText,
     phone |-> NoTag, website |-> NoTag, opening_hours |-> NoTag]

TypeNode == <<"n", "o", "d", "e">>

Element(id, lat, lon, tags) ==
    [type |-> TypeNode, id |-> id, lat |-> lat, lon |-> lon, tags |-> tags]

\* A rule order that looks at the tourism tag first.
DetermineCategory_TourismFirst(tags) ==
    IF tags.tourism = "attraction" \/ tags.tourism = "museum"
        THEN "tourist_attraction"
    ELSE IF tags.amenity = "restaurant" \/ tags.amenity = "fast_food"
        THEN "restaurant"
    ELSE IF tags.amenity = "cafe" THEN "cafe"
    ELSE IF tags.amenity = "fuel" THEN "gas_station"
    ELSE IF Truthy(tags.shop) THEN "shop"
    ELSE "restaurant"

\* determineCategory(tags)
DetermineCategory(tags) ==
    IF tags.amenity = "restaurant" \/ tags.amenity = "fast_food" THEN "restaurant"
    ELSE IF tags.amenity = "cafe" THEN "cafe"
    ELSE IF tags.tourism = "attraction" \/ tags.tourism = "museum"
        THEN "tourist_attraction"
    ELSE IF tags.amenity = "fuel" THEN "gas_station"
    ELSE IF Truthy(tags.shop) THEN "shop"
    ELSE "restaurant"

\* An identifier that joins the two parts without a separator.
SpotId_NoSeparator(element) == element.type \o Decimal(element.id)

\* `${element.type}_${element.id}`
SpotId(element) == element.type \o <<"_">> \o Decimal(element.id)

\* The Spot that convertToSpots maps one element to, without the fields
\* that are only displayed (description, address, cuisine).
ToSpot(element) ==
    [id |-> SpotId(element),
     name |-> IF HasText(element.tags.name) THEN element.tags.name
              ELSE <<"U", "n", "k", "n", "o", "w", "n">>,
     lat |-> element.lat,
     lng |-> element.lon,
     type |-> IF Truthy(element.tags.amenity) THEN element.tags.amenity
              ELSE IF Truthy(element.tags.tourism) THEN element.tags.tourism
              ELSE IF Truthy(element.tags.shop) THEN element.tags.shop
              ELSE "other",
     category |-> DetermineCategory(element.tags),
     phone |-> element.tags.phone,
     website |-> element.tags.website,
     openingHours |-> element.tags.opening_hours]
    @@ DetectChain(element.tags)

\* convertToSpots(elements): the named elements, each mapped to a Spot.
RECURSIVE ConvertToSpots(_)
ConvertToSpots(elements) ==
    IF elements = <<>> THEN <<>>
    ELSE (IF HasText(Head(elements).tags.name) THEN <<ToSpot(Head(elements))>>
          ELSE <<>>) \o ConvertToSpots(Tail(elements))


\* The elements the data source may hold around the route. Node 2 was
\* renamed between two requests; node 5 has no name. Node 1 carries every
\* contact tag, node 3 is of a major chain and node 4 of another chain.
ElA ==
    Element(1, 2140800, 8381700,
            [Tags(<<"A", "o", "y", "a", "m", "a", " ", "D", "i", "n", "e", "r">>, "restaurant", NoTag, NoTag)
                EXCEPT !.phone = "03-0000-0000",
                       !.website = "https://example.org",
                       !.opening_hours = "Mo-Su 11:00-22:00"])
ElB == Element(2, 2140200, 8381880, Tags(<<"B", "i", "s", "t", "r", "o", " ", "B">>, "restaurant", NoTag, NoTag))
ElB2 == Element(2, 2140200, 8381880, Tags(<<"B", "i", "s", "t", "r", "o", " ", "B", "2">>, "fast_food", NoTag, NoTag))
ElC ==
    Element(3, 2139900, 8382000,
            [Tags(<<"C", "u", "r", "r", "y", " ", "C">>, "restaurant", NoTag, NoTag) EXCEPT !.brand = <<"G", "u", "s", "t", "o">>])
ElD ==
    Element(4, 2139600, 8382060,
            [Tags(<<"D", "o", "n", "b", "u", "r", "i", " ", "D">>, "fast_food", NoTag, NoTag)
                EXCEPT !.operator = <<"D", "o", "u", "t", "o", "r">>])
ElU == Element(5, 2139600, 8382000, Tags(NoText, "restaurant", NoTag, NoTag))

\* The JSON bodies (data.elements) a successful response may carry.
ResponseBodies == {<<>>, <<ElA, ElB>>, <<ElB2, ElU, ElC, ElD>>}

\* How the fetch of one request settles: the promise rejects (transport
\* failure), or resolves with a response whose ok flag is false or true.
FetchOutcomes == {"reject", "status", "ok"}

\* ------------------------------------------------------------- distances

\* Distances are integers counting 1/10000 of a metre.
Km == 10000000

\* The length of 1/60000 of a degree of latitude, R * pi / 180 / 60000 with
\* R = 6371 km: 1.8532 m.
LatUnitLength == 18532

\* A number that is not one (0 / 0). Distances are never negative.
NaN == -1

Abs(x) == IF x < 0 THEN -x ELSE x

\* The largest root of a number of 31 bits.
MaxRoot == 46340

\* Math.sqrt, to the integer below: Newton's iteration from x down.
RECURSIVE SqrtFrom(_, _)
SqrtFrom(n, x) ==
    CHOOSE root \in {IF next >= x THEN x ELSE SqrtFrom(n, next) :
                        next \in {(x + n \div x) \div 2}} : TRUE

Sqrt(n) ==
    IF n = 0 THEN 0 ELSE SqrtFrom(n, IF n < MaxRoot THEN n ELSE MaxRoot)

\* The values of calculateDistance for the pairs of places of the model that
\* differ in longitude, computed by the formula of lines 221-228.
HaversineTable ==
    {<<InitialStartPoint, InitialEndPoint, 36257698>>,
     <<InitialStartPoint, Pt(2140872, 8386026), 68735916>>,
     <<InitialEndPoint, Pt(2140872, 8386026), 64547955>>,
     <<Pt(2140800, 8381700), InitialStartPoint, 11082987>>,
     <<Pt(2140800, 8381700), InitialEndPoint, 25178943>>,
     <<Pt(2140800, 8381700), Pt(2140872, 8386026), 65135493>>,
     <<Pt(2140200, 8381880), InitialStartPoint, 22524810>>,
     <<Pt(2140200, 8381880), InitialEndPoint, 13734017>>,
     <<Pt(2140200, 8381880), Pt(2140872, 8386026), 63646414>>,
     <<Pt(2139900, 8382000), InitialStartPoint, 28362716>>,
     <<Pt(2139900, 8382000), InitialEndPoint, 7916727>>,
     <<Pt(2139900, 8382000), Pt(2140872, 8386026), 63231606>>,
     <<Pt(2139600, 8382060), InitialStartPoint, 33968811>>,
     <<Pt(2139600, 8382060), InitialEndPoint, 2289011>>,
     <<Pt(2139600, 8382060), Pt(2140872, 8386026), 64194916>>}

\* calculateDistance(point1, point2), the Haversine formula. For two points
\* of one longitude it is R * |dLat|; for the other pairs see the table.
CalculateDistance(point1, point2) ==
    IF point1.lng = point2.lng
    THEN Abs(point2.lat - point1.lat) * LatUnitLength
    ELSE (CHOOSE entry \in HaversineTable :
              {entry[1], entry[2]}
                  = {Pt(point1.lat, point1.lng), Pt(point2.lat, point2.lng)})[3]

\* A radius rule whose tiers end below their boundary values.
RadiusFor_ExclusiveTiers(distance) ==
    IF distance < 1 * Km THEN 1500
    ELSE IF distance < 3 * Km THEN 2000
    ELSE IF distance < 10 * Km THEN 3000
    ELSE IF distance < 20 * Km THEN 5000
    ELSE 7000

\* The tiers of calculateSearchRadius (lines 236-251), in metres.
RadiusFor(distance) ==
    IF distance <= 1 * Km THEN 1500
    ELSE IF distance <= 3 * Km THEN 2000
    ELSE IF distance <= 10 * Km THEN 3000
    ELSE IF distance <= 20 * Km THEN 5000
    ELSE 7000

\* calculateSearchRadius(startPoint, endPoint)
CalculateSearchRadius(start, end) == RadiusFor(CalculateDistance(start, end))

\* calculateDistanceFromRoute(spot, startPoint, endPoint): the distance of
\* the spot from the line, |A * lng + B * lat + C| / sqrt(A * A + B * B),
\* times 111 km. The numerator is computed from the differences to the start
\* point, which gives the same number. 0 / 0 when the two ends coincide.
CalculateDistanceFromRoute(spot, start, end) ==
    LET A == end.lat - start.lat
        B == start.lng - end.lng
        numerator == Abs(A * (spot.lng - start.lng) + B * (spot.lat - start.lat))
    IN IF A = 0 /\ B = 0 THEN NaN
       ELSE CHOOSE distance \in
                {((numerator \div root) * 185
                      + ((numerator % root) * 185) \div root) * (Km \div 100000) :
                    root \in {Sqrt(A * A + B * B)}} : TRUE

\* isBackward(spot, startPoint, endPoint); x > y * 0.04 is 25 * x > y.
IsBackward(spot, start, end) ==
    LET routeVector == [lat |-> end.lat - start.lat, lng |-> end.lng - start.lng]
        spotVector == [lat |-> spot.lat - start.lat, lng |-> spot.lng - start.lng]
        dotProduct == routeVector.lat * spotVector.lat
                          + routeVector.lng * spotVector.lng
        routeLengthSq == routeVector.lat * routeVector.lat
                             + routeVector.lng * routeVector.lng
        spotLengthSq == spotVector.lat * spotVector.lat
                            + spotVector.lng * spotVector.lng
        endToSpotVector == [lat |-> spot.lat - end.lat, lng |-> spot.lng - end.lng]
        endBackwardDot == routeVector.lat * endToSpotVector.lat
                              + routeVector.lng * endToSpotVector.lng
        endSpotLengthSq == endToSpotVector.lat * endToSpotVector.lat
                               + endToSpotVector.lng * endToSpotVector.lng
    IN IF dotProduct < 0 THEN 25 * spotLengthSq > routeLengthSq
       ELSE IF endBackwardDot > 0 THEN 25 * endSpotLengthSq > routeLengthSq
       ELSE FALSE

\* ---------------------------------------------------------------- the rating

\* A score in which a spot far from the route loses both distance penalties.
Score_BothDistancePenalties(spot, start, end) ==
    100 - (IF IsBackward(spot, start, end) THEN 40 ELSE 0)
        - (IF spot.distanceFromRoute > (5 * Km) \div 2 THEN 30 ELSE 0)
        - (IF spot.distanceFromRoute > (9 * Km) \div 5 THEN 20 ELSE 0)
        - (IF spot.isChain THEN 20 ELSE 0)
        - (IF CalculateDistance(spot, start) <= (3 * Km) \div 10 THEN 25 ELSE 0)
        - (IF ~Truthy(spot.openingHours) THEN 10 ELSE 0)
        - (IF ~Truthy(spot.phone) THEN 10 ELSE 0)
        - (IF ~Truthy(spot.website) THEN 10 ELSE 0)

\* The score of calculateSpotRating (lines 354-416) for a spot that is not
\* of a major chain.
Score(spot, start, end) ==
    LET distanceFromRoute ==
            IF spot.distanceFromRoute = NaN \/ spot.distanceFromRoute = 0
            THEN 0 ELSE spot.distanceFromRoute
    IN 100 - (IF IsBackward(spot, start, end) THEN 40 ELSE 0)
           - (IF distanceFromRoute > (5 * Km) \div 2 THEN 30
              ELSE IF distanceFromRoute > (9 * Km) \div 5 THEN 20 ELSE 0)
           - (IF spot.isChain THEN 20 ELSE 0)
           - (IF CalculateDistance(spot, start) <= (3 * Km) \div 10 THEN 25 ELSE 0)
           - (IF ~Truthy(spot.openingHours) THEN 10 ELSE 0)
           - (IF ~Truthy(spot.phone) THEN 10 ELSE 0)
           - (IF ~Truthy(spot.website) THEN 10 ELSE 0)

\* The final evaluation (lines 421-428).
StarsFor(score) == IF score >= 70 THEN 3 ELSE IF score >= 30 THEN 2 ELSE 1

\* What debugInfo shows as the score of a major chain: none.
NoScore == [none |-> TRUE]

\* A rating that scores the spots of major chains like the others.
CalculateSpotRating_NoMajorRule(spot, start, end) ==
    CHOOSE rating \in
        {[stars |-> StarsFor(score), score |-> score] :
            score \in {Score(spot, start, end)}} : TRUE

\* calculateSpotRating(spot, startPoint, endPoint): the stars, and the score
\* that debugInfo reports.
CalculateSpotRating(spot, start, end) ==
    IF spot.isMajorChain THEN [stars |-> 1, score |-> NoScore]
    ELSE CHOOSE rating \in
             {[stars |-> StarsFor(score), score |-> score] :
                 score \in {Score(spot, start, end)}} : TRUE

\* The Spot that addRatingsToSpots maps one spot to (without debugInfo);
\* updatedSpot is bound as a value, so that the distance is computed once.
Rated(spot, start, end) ==
    CHOOSE rated \in
        {[stars |-> CalculateSpotRating(updatedSpot, start, end).stars]
             @@ updatedSpot :
            updatedSpot \in
                {[distanceFromRoute |->
                      CalculateDistanceFromRoute(spot, start, end)] @@ spot}} :
        TRUE

\* spots.map(...) from index on.
RECURSIVE RatedFrom(_, _, _, _)
RatedFrom(spots, index, start, end) ==
    IF index > Len(spots) THEN <<>>
    ELSE <<Rated(spots[index], start, end)>>
             \o RatedFrom(spots, index + 1, start, end)

\* addRatingsToSpots(spots, startPoint, endPoint)
AddRatingsToSpots(spots, start, end) == RatedFrom(spots, 1, start, end)

\* -------------------------------------------------------------- the rolls

RollIds == 1..MaxRolls

\* An invocation that has not been triggered, and the locals of one that returned.
NoLocals ==
    [startPoint |-> NULL, endPoint |-> NULL, selectedCategory |-> NoTag,
     searchRadius |-> 0, selectedMidPoints |-> <<>>,
     index |-> 0, request |-> NULL, allSpots |-> <<>>, results |-> <<>>]

\* ratedSpots and selectedSpots record, for a roll that returned, the values
\* its locals of lines 89 and 92 had.
IdleRoll ==
    [pc |-> "idle", notice |-> "none", threw |-> FALSE, queried |-> 0,
     ratedSpots |-> <<>>, selectedSpots |-> <<>>] @@ NoLocals

\* What one request gave the roll: searchSpots threw, or returned the Spots
\* converted from the elements of the response.
Threw == [ok |-> FALSE, elements |-> <<>>]
Returned(elements) == [ok |-> TRUE, elements |-> elements]

InFlight(r) == rolls[r].pc \in {"fetch", "json"}

\* A trigger that stays enabled while a roll is loading.
CanRollGacha_IgnoresLoading == startPoint /= NULL /\ endPoint /= NULL

\* ControlPanel's canRollGacha and the disabled attribute of both buttons.
CanRollGacha == startPoint /= NULL /\ endPoint /= NULL /\ ~isLoading

TypeOK ==
    /\ isLoading \in BOOLEAN
    /\ rollCount \in 0..MaxRolls
    /\ clicks \in 0..MaxClicks
    /\ wasReset \in BOOLEAN
    /\ \A r \in RollIds : rolls[r].pc \in {"idle", "fetch", "json", "done"}

\* No function is examined on its own while the application runs.
NoCall == [fn |-> "none"]

InitApp ==
    /\ startPoint = InitialStartPoint
    /\ endPoint = InitialEndPoint
    /\ gachaSpots = <<>>
    /\ allGachaHistory = <<>>
    /\ isLoading = FALSE
    /\ rolls = [r \in RollIds |-> IdleRoll]
    /\ rollCount = 0
    /\ clicks = 0
    /\ wasReset = FALSE
    /\ selectedCategory = "restaurant"
    /\ mapView = DefaultView
    /\ userViewRef = NULL

\* What the map shows after React has rendered a state update and run the
\* effects of MapComponent. handleMapClick is a new function when a point
\* has changed (its useCallback dependencies), and the effect of lines 63-98
\* then removes the map and constructs it again with the initial view. The
\* effect of lines 101-240 runs when a point or the result list was set, and
\* calls setView with the saved view if there is one and a point is set.
\* ref is the value of userViewRef.current as the handler leaves it.
MapRenders(ref, listSet) ==
    LET recreated == startPoint' /= startPoint \/ endPoint' /= endPoint
        restored == /\ recreated \/ listSet
                    /\ ref /= NULL
                    /\ startPoint' /= NULL \/ endPoint' /= NULL
    IN /\ mapView' = IF restored THEN ref
                     ELSE IF recreated THEN DefaultView
                     ELSE mapView
       /\ userViewRef' = ref

Init == InitApp /\ call = NoCall /\ ret = NoCall

\* A click handler whose last branch moves the end point.
MapClick_MovesEnd(point) ==
    IF startPoint = NULL
    THEN startPoint' = point /\ endPoint' = endPoint
    ELSE endPoint' = point /\ startPoint' = startPoint

\* handleMapClick(lat, lng): what it does to the two points. The click
\* handler of the map saves the view in userViewRef before it calls it.
MapClick(point) ==
    IF startPoint = NULL
    THEN startPoint' = point /\ endPoint' = endPoint
    ELSE IF endPoint = NULL
    THEN endPoint' = point /\ startPoint' = startPoint
    ELSE UNCHANGED <<startPoint, endPoint>>

HandleMapClick ==
    \E point \in ClickPoints :
        /\ clicks < MaxClicks
        /\ MapClick(point)
        /\ clicks' = clicks + 1
        /\ UNCHANGED <<gachaSpots, allGachaHistory, isLoading, rolls,
                       rollCount, wasReset, selectedCategory, unit>>
        /\ MapRenders(mapView, FALSE)

\* A reset that forgets the history list.
Reset_KeepsHistory ==
    /\ startPoint' = NULL
    /\ endPoint' = NULL
    /\ gachaSpots' = <<>>
    /\ allGachaHistory' = allGachaHistory

\* handleReset(): the four state updates.
Reset ==
    /\ startPoint' = NULL
    /\ endPoint' = NULL
    /\ gachaSpots' = <<>>
    /\ allGachaHistory' = <<>>

\* The reset button is rendered while a point is set (or, in ControlPanel,
\* while there are results).
HandleReset ==
    /\ startPoint /= NULL \/ endPoint /= NULL \/ Len(gachaSpots) > 0
    /\ Reset
    /\ clicks' = 0
    /\ wasReset' = TRUE
    /\ UNCHANGED <<isLoading, rolls, rollCount, selectedCategory, unit>>
    /\ MapRenders(userViewRef, TRUE)

\* The draws tried for the selection among n items: no swap at all, every
\* swap with the first item, every swap with the middle item.
DrawSamples(n) ==
    {[i \in 1..(n - 1) |-> i], [i \in 1..(n - 1) |-> 0]}

\* The record of roll r as handleGachaRoll reaches its first await: the
\* closure's points and category, the radius, the selected sample points and
\* the request of the first searchSpots call.
Started(r, d) ==
    CHOOSE roll \in
        {[pc |-> "fetch", notice |-> "none", threw |-> FALSE,
          queried |-> 1, ratedSpots |-> <<>>, selectedSpots |-> <<>>,
          startPoint |-> startPoint, endPoint |-> endPoint,
          selectedCategory |-> selectedCategory,
          searchRadius |-> searchRadius,
          selectedMidPoints |-> selectedMidPoints,
          index |-> 1,
          request |-> SearchRequest(selectedMidPoints[1], selectedMidPoints[1],
                                    searchRadius, selectedCategory),
          allSpots |-> <<>>, results |-> <<>>] :
            searchRadius \in {CalculateSearchRadius(startPoint, endPoint)},
            selectedMidPoints \in
                {SelectRandomMidPoints(
                     CalculateNearDestinationPoints(startPoint, endPoint,
                                                    MidPointCount),
                     SelectedMidPointCount, d)}} : TRUE

\* A roll that starts without setting the loading flag.
StartRoll_NoLoadingFlag(r, d) ==
    /\ isLoading' = isLoading
    /\ gachaSpots' = <<>>
    /\ rolls' = [rolls EXCEPT ![r] = Started(r, d)]

\* A roll that starts without clearing the previous results.
StartRoll_KeepsResults(r, d) ==
    /\ isLoading' = TRUE
    /\ gachaSpots' = gachaSpots
    /\ rolls' = [rolls EXCEPT ![r] = Started(r, d)]

\* handleGachaRoll up to its first await: the state updates, the choice of
\* the sample points and the first searchSpots call, which issues its fetch.
StartRoll(r, d) ==
    /\ isLoading' = TRUE
    /\ gachaSpots' = <<>>
    /\ rolls' = [rolls EXCEPT ![r] = Started(r, d)]

HandleGachaRoll ==
    /\ CanRollGacha
    /\ rollCount < MaxRolls
    /\ \E d \in DrawSamples(MidPointCount) : StartRoll(rollCount + 1, d)
    /\ rollCount' = rollCount + 1
    /\ UNCHANGED <<startPoint, endPoint, allGachaHistory, clicks, wasReset,
                   selectedCategory, unit>>
    /\ MapRenders(userViewRef, TRUE)

\* The roll's record once handleGachaRoll has returned.
Done(r, notice, threw, selectedSpots) ==
    [pc |-> "done", notice |-> notice, threw |-> threw,
     queried |-> rolls[r].queried, ratedSpots |-> <<>>,
     selectedSpots |-> selectedSpots] @@ NoLocals

\* The request of the searchSpots call for the sample point at index.
RequestAt(r, index) ==
    SearchRequest(rolls[r].selectedMidPoints[index],
                  rolls[r].selectedMidPoints[index],
                  rolls[r].searchRadius, rolls[r].selectedCategory)

\* A loop that calls searchSpots again for the sample point it has just
\* queried.
NextRequest_Repeats(r, allSpots, results) ==
    /\ rolls[r].queried < 2 * Len(rolls[r].selectedMidPoints)
    /\ rolls' = [rolls EXCEPT ![r].pc = "fetch",
                              ![r].queried = @ + 1,
                              ![r].allSpots = allSpots,
                              ![r].results = results]
    /\ UNCHANGED <<gachaSpots, allGachaHistory, isLoading>>

\* The loop goes on to the next sample point: the next searchSpots call
\* issues its fetch.
NextRequest(r, allSpots, results) ==
    /\ rolls[r].index < Len(rolls[r].selectedMidPoints)
    /\ rolls' = [rolls EXCEPT ![r].pc = "fetch",
                              ![r].index = @ + 1,
                              ![r].queried = @ + 1,
                              ![r].request = RequestAt(r, rolls[r].index + 1),
                              ![r].allSpots = allSpots,
                              ![r].results = results]
    /\ UNCHANGED <<gachaSpots, allGachaHistory, isLoading>>

\* A roll that shows the error notice when it found nothing.
FinishRoll_EmptyIsError(r, allSpots, d) ==
    /\ rolls[r].index = Len(rolls[r].selectedMidPoints)
    /\ \E uniqueSpots \in {UniqueSpots(allSpots)} :
       \E ratedSpots \in
              {AddRatingsToSpots(uniqueSpots, rolls[r].startPoint,
                                 rolls[r].endPoint)} :
       \E selectedSpots \in
              {SelectRandomSpotsWithoutRating(ratedSpots, SelectedSpotCount, d)} :
          IF Len(selectedSpots) = 0
          THEN /\ UNCHANGED <<gachaSpots, allGachaHistory>>
               /\ rolls' = [rolls EXCEPT ![r] =
                      [Done(r, "error", FALSE, selectedSpots)
                          EXCEPT !.ratedSpots = ratedSpots]]
          ELSE /\ gachaSpots' = selectedSpots
               /\ allGachaHistory' = MergeHistory(allGachaHistory, selectedSpots)
               /\ rolls' = [rolls EXCEPT ![r] =
                      [Done(r, "found", FALSE, selectedSpots)
                          EXCEPT !.ratedSpots = ratedSpots]]
    /\ isLoading' = FALSE

\* After the loop: dedup, rating, selection, the commit or the "not found"
\* notice, and the finally block.
FinishRoll(r, allSpots, d) ==
    /\ rolls[r].index = Len(rolls[r].selectedMidPoints)
    /\ \E uniqueSpots \in {UniqueSpots(allSpots)} :
       \E ratedSpots \in
              {AddRatingsToSpots(uniqueSpots, rolls[r].startPoint,
                                 rolls[r].endPoint)} :
       \E selectedSpots \in
              {SelectRandomSpotsWithoutRating(ratedSpots, SelectedSpotCount, d)} :
          IF Len(selectedSpots) = 0
          THEN /\ UNCHANGED <<gachaSpots, allGachaHistory>>
               /\ rolls' = [rolls EXCEPT ![r] =
                      [Done(r, "notfound", FALSE, selectedSpots)
                          EXCEPT !.ratedSpots = ratedSpots]]
          ELSE /\ gachaSpots' = selectedSpots
               /\ allGachaHistory' = MergeHistory(allGachaHistory, selectedSpots)
               /\ rolls' = [rolls EXCEPT ![r] =
                      [Done(r, "found", FALSE, selectedSpots)
                          EXCEPT !.ratedSpots = ratedSpots]]
    /\ isLoading' = FALSE

\* An outer catch with no finally block after it.
FailRoll_NoFinally(r) ==
    /\ rolls[r].index = Len(rolls[r].selectedMidPoints)
    /\ rolls' = [rolls EXCEPT ![r] = Done(r, "error", TRUE, <<>>)]
    /\ UNCHANGED <<gachaSpots, allGachaHistory, isLoading>>

\* After the loop, an exception in the code of lines 83-92: the outer catch
\* shows the error notice, and the finally block runs.
FailRoll(r) ==
    /\ rolls[r].index = Len(rolls[r].selectedMidPoints)
    /\ rolls' = [rolls EXCEPT ![r] = Done(r, "error", TRUE, <<>>)]
    /\ isLoading' = FALSE
    /\ UNCHANGED <<gachaSpots, allGachaHistory>>

\* What follows the settling of a request, in the same turn of the event loop.
Continue(r, allSpots, results) ==
    \/ NextRequest(r, allSpots, results)
    \/ \E d \in DrawSamples(Len(UniqueSpots(allSpots))) :
           FinishRoll(r, allSpots, d)
    \/ FailRoll(r)

\* A failed query that ends the roll in the outer catch.
QueryFailed_Fatal(r) ==
    /\ rolls' = [rolls EXCEPT ![r] = Done(r, "error", TRUE, <<>>)]
    /\ isLoading' = FALSE
    /\ UNCHANGED <<gachaSpots, allGachaHistory>>

\* searchSpots threw (line 29 or a rejected fetch, rethrown at line 38): the
\* catch of lines 77-80 logs it and the loop continues.
QueryFailed(r) ==
    \E allSpots \in {rolls[r].allSpots} :
    \E results \in {Append(rolls[r].results, Threw)} :
        Continue(r, allSpots, results)

\* searchSpots returned: allSpots.push(...spots).
QueryReturned(r, elements) ==
    \E allSpots \in {rolls[r].allSpots \o ConvertToSpots(elements)} :
    \E results \in {Append(rolls[r].results, Returned(elements))} :
        Continue(r, allSpots, results)

\* The fetch of roll r's pending request settles.
FetchSettles(r, outcome) ==
    /\ rolls[r].pc = "fetch"
    /\ IF outcome = "ok"
       THEN /\ rolls' = [rolls EXCEPT ![r].pc = "json"]
            /\ UNCHANGED <<gachaSpots, allGachaHistory, isLoading>>
       ELSE QueryFailed(r)
    /\ UNCHANGED <<startPoint, endPoint, rollCount, clicks, wasReset,
                   selectedCategory, unit>>
    /\ MapRenders(userViewRef, rolls'[r].notice = "found")

\* response.json() of roll r's pending request resolves.
JsonSettles(r, elements) ==
    /\ rolls[r].pc = "json"
    /\ QueryReturned(r, elements)
    /\ UNCHANGED <<startPoint, endPoint, rollCount, clicks, wasReset,
                   selectedCategory, unit>>
    /\ MapRenders(userViewRef, rolls'[r].notice = "found")

RequestSettles ==
    \E r \in RollIds :
        \/ \E outcome \in FetchOutcomes : FetchSettles(r, outcome)
        \/ \E elements \in ResponseBodies : JsonSettles(r, elements)

Next == HandleMapClick \/ HandleReset \/ HandleGachaRoll \/ RequestSettles

\* The behaviours in which the category select and the view of the map are
\* left alone by the user.
Spec == Init /\ [][Next]_vars

\* Every pending request eventually completes or fails.
FairSpec == Spec /\ \A r \in RollIds : WF_vars(\E o \in FetchOutcomes : FetchSettles(r, o))
                                       /\ WF_vars(\E e \in ResponseBodies : JsonSettles(r, e))

\* The select's onChange: setSelectedCategory(e.target.value).
HandleCategoryChange ==
    /\ \E category \in CategoryChoices :
          /\ category /= selectedCategory
          /\ selectedCategory' = category
    /\ UNCHANGED <<startPoint, endPoint, gachaSpots, allGachaHistory, isLoading,
                   rolls, rollCount, clicks, wasReset, mapView, userViewRef,
                   unit>>

CategoryNext == Next \/ HandleCategoryChange

\* The behaviours in which the user also changes the category.
CategorySpec == Init /\ [][CategoryNext]_vars

\* The user drags or zooms the map, or opens the popup of a spot from the
\* list (setView of line 261): the view changes, and the moveend / zoomend
\* handler saves the new view.
UserMovesMap ==
    /\ \E view \in UserViews :
          /\ view /= mapView
          /\ mapView' = view
          /\ userViewRef' = view
    /\ UNCHANGED <<startPoint, endPoint, gachaSpots, allGachaHistory, isLoading,
                   rolls, rollCount, clicks, wasReset, selectedCategory, unit>>

MapNext == Next \/ UserMovesMap

\* The behaviours in which the user also moves the map.
MapSpec == Init /\ [][MapNext]_vars

\* ------------------------------------ the selection, examined on its own

\* The longest list given to the selection.
MaxListLen == 5

\* The Spots the service may return around the route: node 2 under both of
\* its names.
Candidates == ConvertToSpots(<<ElA, ElB, ElB2, ElC, ElD>>)

\* The lists given to selectRandomMidPoints: the sample points of the default
\* route, and those of a route whose two ends coincide (all equal).
MidPointLists(n) ==
    {CalculateNearDestinationPoints(InitialStartPoint, InitialEndPoint, n),
     CalculateNearDestinationPoints(InitialStartPoint, InitialStartPoint, n)}

\* The lists given to selectRandomSpotsWithoutRating.
SpotLists(n) ==
    {[k \in 1..n |-> Candidates[((k - 1) % Len(Candidates)) + 1]]}

SelectCounts == 0..SelectedSpotCount

SelectInit ==
    /\ InitApp
    /\ ret = NoCall
    /\ \E n \in 0..MaxListLen, count \in SelectCounts :
       \E d \in Draws(n) :
          \/ \E midPoints \in MidPointLists(n) :
                call = [fn |-> "selectRandomMidPoints", list |-> midPoints,
                        count |-> count, d |-> d]
          \/ \E spots \in SpotLists(n) :
                call = [fn |-> "selectRandomSpotsWithoutRating", list |-> spots,
                        count |-> count, d |-> d]

SelectMidPointsCall ==
    /\ call.fn = "selectRandomMidPoints"
    /\ ret = NoCall
    /\ ret' = [fn |-> call.fn,
               out |-> SelectRandomMidPoints(call.list, call.count, call.d)]
    /\ UNCHANGED <<app, call>>

SelectSpotsCall ==
    /\ call.fn = "selectRandomSpotsWithoutRating"
    /\ ret = NoCall
    /\ ret' = [fn |-> call.fn,
               out |-> SelectRandomSpotsWithoutRating(call.list, call.count, call.d)]
    /\ UNCHANGED <<app, call>>

SelectNext == SelectMidPointsCall \/ SelectSpotsCall

SelectSpec == SelectInit /\ [][SelectNext]_vars

\* -------------------------- the gathering of one roll, examined on its own

\* The most candidates the three requests of one roll return together.
MaxCandidates == 4

SeqsUpTo(S, n) == UNION {[1..k -> S] : k \in 0..n}

\* Three candidate lists, one per sample point, of any lengths and contents.
DedupInit ==
    /\ InitApp
    /\ ret = NoCall
    /\ \E c \in SeqsUpTo({Candidates[k] : k \in 1..Len(Candidates)}, MaxCandidates) :
       \E i \in 0..Len(c) :
       \E j \in i..Len(c) :
       \E d \in Draws(Len(UniqueSpots(c))) :
          call = [fn |-> "gather",
                  spots |-> <<SubSeq(c, 1, i), SubSeq(c, i + 1, j),
                              SubSeq(c, j + 1, Len(c))>>,
                  d |-> d]

\* allSpots.push(...spots) for the lists from index on.
RECURSIVE PushAll(_, _)
PushAll(spots, index) ==
    IF index > Len(spots) THEN <<>>
    ELSE spots[index] \o PushAll(spots, index + 1)

\* Lines 73-92 of handleGachaRoll for three requests that returned: the
\* pushes of the loop, the filter, the rating and the final selection.
GatherAndSelect ==
    /\ call.fn = "gather"
    /\ ret = NoCall
    /\ \E allSpots \in {PushAll(call.spots, 1)} :
       \E uniqueSpots \in {UniqueSpots(allSpots)} :
       \E ratedSpots \in {AddRatingsToSpots(uniqueSpots, startPoint, endPoint)} :
          ret' = [fn |-> call.fn,
                  allSpots |-> allSpots,
                  uniqueSpots |-> uniqueSpots,
                  ratedSpots |-> ratedSpots,
                  selectedSpots |->
                      SelectRandomSpotsWithoutRating(ratedSpots,
                                                     SelectedSpotCount, call.d)]
    /\ UNCHANGED <<app, call>>

DedupNext == GatherAndSelect

DedupSpec == DedupInit /\ [][DedupNext]_vars

\* ------------------------------------ the conversion, examined on its own

\* The longest response body given to convertToSpots.
MaxElements == 3

\* Elements of three types and three numeric ids, all named, and two
\* elements without a name: one has no name tag, one an empty name.
ElementTypes == {<<"n">>, <<"n", "1">>, <<"n", "_", "1">>}

ElementIds == {1, 2, 12}

NamedElements ==
    {[Element(id, 2140800, 8381700, Tags(<<"K", "F", "C">>, "fast_food", NoTag, NoTag))
         EXCEPT !.type = type] : type \in ElementTypes, id \in ElementIds}

UnnamedElements ==
    {Element(7, 2140200, 8381880, Tags(name, "cafe", NoTag, NoTag)) :
        name \in {NoText, <<>>}}

\* Elements with every combination of the tags that determineCategory and
\* the type field read.
TaggedElements ==
    {Element(9, 2139900, 8382000, Tags(<<"B", "i", "s", "t", "r", "o", " ", "B">>, amenity, tourism, shop)) :
        amenity \in {NoTag, "restaurant", "fast_food", "cafe", "fuel", "bar"},
        tourism \in {NoTag, "attraction", "museum", "hotel"},
        shop \in {NoTag, "", "bakery"}}

ConvertInit ==
    /\ InitApp
    /\ ret = NoCall
    /\ \E elements \in SeqsUpTo(NamedElements \cup UnnamedElements, MaxElements)
                        \cup SeqsUpTo(TaggedElements, 1) :
          call = [fn |-> "convertToSpots", elements |-> elements]

ConvertCall ==
    /\ call.fn = "convertToSpots"
    /\ ret = NoCall
    /\ ret' = [fn |-> call.fn, spots |-> ConvertToSpots(call.elements)]
    /\ UNCHANGED <<app, call>>

ConvertNext == ConvertCall

ConvertSpec == ConvertInit /\ [][ConvertNext]_vars

\* ---------------------------------------- the rating, examined on its own

\* Spots on the meridian of the start point, by their offset in latitude:
\* at the start, 298 m and 300.2 m north of it, and further away before,
\* along and past a route that leads south-east.
RatedOffsets == {0, 161, 162, 600, -600, -3000}

\* The distances from the route that a spot carries: none, 0, and the
\* values at and just above 1.8 km and 2.5 km.
RouteDistances ==
    {NaN, 0, (9 * Km) \div 5, (9 * Km) \div 5 + 1, (5 * Km) \div 2,
     (5 * Km) \div 2 + 1}

RatedSpots ==
    {[lat |-> InitialStartPoint.lat + offset, lng |-> InitialStartPoint.lng,
      distanceFromRoute |-> distanceFromRoute,
      isChain |-> isChain, isMajorChain |-> isMajorChain,
      openingHours |-> openingHours, phone |-> phone, website |-> website] :
        offset \in RatedOffsets, distanceFromRoute \in RouteDistances,
        isChain \in BOOLEAN, isMajorChain \in BOOLEAN,
        openingHours \in {NoTag, "", "Mo-Su"}, phone \in {NoTag, "", "03"},
        website \in {NoTag, "", "https"}}

RateInit ==
    /\ InitApp
    /\ ret = NoCall
    /\ \E spot \in RatedSpots, end \in {InitialEndPoint, InitialStartPoint} :
          call = [fn |-> "calculateSpotRating", spot |-> spot,
                  startPoint |-> InitialStartPoint, endPoint |-> end]

RateCall ==
    /\ call.fn = "calculateSpotRating"
    /\ ret = NoCall
    /\ ret' = [fn |-> call.fn]
                  @@ CalculateSpotRating(call.spot, call.startPoint, call.endPoint)
    /\ UNCHANGED <<app, call>>

RateNext == RateCall

RateSpec == RateInit /\ [][RateNext]_vars

\* ------------------------------------ the search radius, examined on its own

\* The longest route given to calculateSearchRadius, in hundreds of 1/60000
\* of a degree of latitude: 110 is 20.4 km.
MaxRouteLength == 110

\* End points south of the start point on its meridian: every hundredth
\* offset, and the last offset below and the first above 1, 3, 10 and 20 km.
RouteOffsets ==
    {100 * k : k \in 0..MaxRouteLength}
        \cup {539, 540, 1618, 1619, 5396, 5397, 10792, 10793}

\* Distances that the Haversine formula may return: the examples 0.5, 2, 5,
\* 15 and 25 km, and each tier boundary with the value next above it.
TierDistances ==
    {0, Km \div 2, Km, Km + 1, 2 * Km, 3 * Km, 3 * Km + 1, 5 * Km,
     10 * Km, 10 * Km + 1, 15 * Km, 20 * Km, 20 * Km + 1, 25 * Km}

RadiusInit ==
    /\ InitApp
    /\ ret = NoCall
    /\ \/ \E offset \in RouteOffsets :
             call = [fn |-> "calculateSearchRadius",
                     startPoint |-> InitialStartPoint,
                     endPoint |-> Pt(InitialStartPoint.lat - offset,
                                     InitialStartPoint.lng)]
       \/ \E distance \in TierDistances :
             call = [fn |-> "tiers", distance |-> distance]

\* calculateSearchRadius(startPoint, endPoint)
RadiusCall ==
    /\ call.fn = "calculateSearchRadius"
    /\ ret = NoCall
    /\ ret' = [fn |-> call.fn,
               distance |-> CalculateDistance(call.startPoint, call.endPoint),
               radius |-> CalculateSearchRadius(call.startPoint, call.endPoint)]
    /\ UNCHANGED <<app, call>>

\* Lines 236-251 of calculateSearchRadius, for a distance that line 233 found.
TiersCall ==
    /\ call.fn = "tiers"
    /\ ret = NoCall
    /\ ret' = [fn |-> call.fn, distance |-> call.distance,
               radius |-> RadiusFor(call.distance)]
    /\ UNCHANGED <<app, call>>

RadiusNext == RadiusCall \/ TiersCall

RadiusSpec == RadiusInit /\ [][RadiusNext]_vars

\* ------------------------------------ the interpolation, examined on its own

\* The end points lie up to MaxSpan steps of 6/60000 of a degree from the
\* start point in each direction (sixths of such a step are whole units).
MaxSpan == 3

RouteStarts == {InitialStartPoint, InitialEndPoint} \cup ClickPoints

RouteEnds(start) ==
    {Pt(start.lat + 6 * dLat, start.lng + 6 * dLng) :
        dLat \in -MaxSpan..MaxSpan, dLng \in -MaxSpan..MaxSpan}
        \cup RouteStarts

InterpInit ==
    /\ InitApp
    /\ ret = NoCall
    /\ \E start \in RouteStarts : \E end \in RouteEnds(start) :
          call = [fn |-> "calculateNearDestinationPoints",
                  start |-> start, end |-> end, count |-> MidPointCount]

InterpCall ==
    /\ call.fn = "calculateNearDestinationPoints"
    /\ ret = NoCall
    /\ ret' = [fn |-> call.fn,
               points |-> CalculateNearDestinationPoints(call.start, call.end,
                                                         call.count)]
    /\ UNCHANGED <<app, call>>

InterpNext == InterpCall

InterpSpec == InterpInit /\ [][InterpNext]_vars

\* ------------------------------------------------------ observed steps

Ids(spots) == {spots[i].id : i \in 1..Len(spots)}

DistinctIds(spots) ==
    \A i, j \in 1..Len(spots) : spots[i].id = spots[j].id => i = j

\* In this step handleGachaRoll invocation r returns.
Returns(r) == InFlight(r) /\ rolls'[r].pc = "done"

\* In this step roll r returns having committed its selection.
Commits(r) == Returns(r) /\ rolls'[r].notice = "found"

\* In this step the user triggers roll r.
Triggers(r) == rolls[r].pc = "idle" /\ rolls'[r].pc /= "idle"

\* In this step roll r issues a request.
Issues(r) == rolls'[r].queried /= rolls[r].queried

\* In this step the map reports a click.
Clicked == clicks' = clicks + 1

PointsUnchanged == startPoint' = startPoint /\ endPoint' = endPoint

\* ------------------------------------------------------------------ claims

\* C1: only the latest roll commits. Whenever a roll writes its selection to
\* the result list and the history, no newer roll has been triggered.
C1_OnlyLatestRollCommits ==
    [][\A r \in RollIds : Commits(r) => r = rollCount]_vars

\* C1 witness: a second roll, triggered after the first one had committed,
\* has committed its own selection.
C1_Witness ==
    /\ rollCount = 2
    /\ rolls[1].notice = "found"
    /\ rolls[2].notice = "found"
    /\ gachaSpots = rolls[2].selectedSpots

\* C2: result updates are atomic per roll. While a roll is in flight the
\* result list is empty; the list is always empty or the whole final
\* selection of one roll that committed; and it changes only by being
\* emptied or by a returning roll writing its whole selection.
C2_AtomicResultUpdates ==
    /\ []((\E r \in RollIds : InFlight(r)) => gachaSpots = <<>>)
    /\ [](\/ gachaSpots = <<>>
          \/ \E r \in RollIds : /\ rolls[r].notice = "found"
                                /\ gachaSpots = rolls[r].selectedSpots)
    /\ [][gachaSpots' /= gachaSpots =>
            \/ gachaSpots' = <<>>
            \/ \E r \in RollIds : /\ Commits(r)
                                  /\ gachaSpots' = rolls'[r].selectedSpots]_vars

\* C2 witness: the second roll's selection has replaced the first roll's,
\* which was a different one.
C2_Witness ==
    /\ rolls[1].notice = "found"
    /\ rolls[2].notice = "found"
    /\ rolls[1].selectedSpots /= rolls[2].selectedSpots
    /\ Len(gachaSpots) = SelectedSpotCount
    /\ gachaSpots = rolls[2].selectedSpots

\* C3 as stated: the first map click sets the start point, the second sets
\* the end point, and every further click leaves both points unchanged.
C3_ClicksFromSessionStart ==
    [][Clicked =>
         IF clicks = 0 THEN startPoint' \in ClickPoints /\ endPoint' = endPoint
         ELSE IF clicks = 1
              THEN endPoint' \in ClickPoints /\ startPoint' = startPoint
         ELSE PointsUnchanged]_vars

\* C3 amended: counting the map clicks from the last reset, the first sets
\* the start point, the second sets the end point and every further click
\* leaves both points unchanged; before the first reset both points hold the
\* default route and every click leaves them unchanged.
C3_ClicksAfterReset ==
    [][Clicked =>
         IF ~wasReset THEN PointsUnchanged
         ELSE IF clicks = 0
              THEN /\ startPoint = NULL
                   /\ startPoint' \in ClickPoints
                   /\ endPoint' = endPoint
         ELSE IF clicks = 1
              THEN /\ endPoint = NULL
                   /\ endPoint' \in ClickPoints
                   /\ startPoint' = startPoint
         ELSE PointsUnchanged]_vars

\* C3 witness: after a reset, three clicks have been made and both points are
\* the clicked ones.
C3_Witness ==
    /\ wasReset
    /\ clicks = 3
    /\ startPoint \in ClickPoints
    /\ endPoint \in ClickPoints

\* C4: a reset clears all session state. Every step of handleReset ends with
\* both points unset and the result list and the history empty.
C4_ResetClearsAll ==
    [][HandleReset =>
         /\ startPoint' = NULL
         /\ endPoint' = NULL
         /\ gachaSpots' = <<>>
         /\ allGachaHistory' = <<>>]_vars

\* C4 witness: a roll had committed results, and a later reset has left both
\* points unset and both lists empty.
C4_Witness ==
    /\ wasReset
    /\ \E r \in RollIds : rolls[r].notice = "found"
    /\ \A r \in RollIds : ~InFlight(r)
    /\ startPoint = NULL
    /\ endPoint = NULL
    /\ gachaSpots = <<>>
    /\ allGachaHistory = <<>>

\* C5: the loading flag is set exactly while a roll is in flight, and, every
\* request eventually settling, a set loading flag is eventually cleared.
C5_LoadingCleared ==
    /\ [](isLoading <=> \E r \in RollIds : InFlight(r))
    /\ (isLoading ~> ~isLoading)

\* C5 witness: one roll has ended in the outer catch and another with the
\* "not found" notice, and the loading flag is clear.
C5_Witness ==
    /\ \E r \in RollIds : rolls[r].notice = "error"
    /\ \E r \in RollIds : rolls[r].notice = "notfound"
    /\ ~isLoading

\* The candidates of the requests that returned, in order.
RECURSIVE Aggregated(_)
Aggregated(results) ==
    IF results = <<>> THEN <<>>
    ELSE (IF Head(results).ok THEN ConvertToSpots(Head(results).elements)
          ELSE <<>>) \o Aggregated(Tail(results))

\* C6: a failed request is not fatal. While a roll is in flight, every
\* earlier sample point has been queried once, whether its query returned or
\* threw, and the candidates gathered are exactly those of the queries that
\* returned; a roll that has returned has queried all 3 selected points.
C6_FailedRequestSkipped ==
    \A r \in RollIds :
        /\ InFlight(r) =>
              /\ Len(rolls[r].results) = rolls[r].index - 1
              /\ rolls[r].queried = rolls[r].index
              /\ rolls[r].allSpots = Aggregated(rolls[r].results)
        /\ rolls[r].pc = "done" => rolls[r].queried = SelectedMidPointCount

\* C6 witness: the first request failed, the second returned candidates, and
\* the third request is pending.
C6_Witness ==
    \E r \in RollIds :
        /\ InFlight(r)
        /\ rolls[r].index = 3
        /\ ~rolls[r].results[1].ok
        /\ rolls[r].results[2].ok
        /\ rolls[r].allSpots /= <<>>

\* C7: a roll that returns with an empty final selection, no exception having
\* reached the outer catch, shows the "not found" notice, leaves the result
\* list empty and leaves the history as it was.
C7_EmptySelectionIsNotFound ==
    [][\A r \in RollIds :
          (Returns(r) /\ ~rolls'[r].threw /\ rolls'[r].selectedSpots = <<>>) =>
              /\ rolls'[r].notice = "notfound"
              /\ gachaSpots' = <<>>
              /\ allGachaHistory' = allGachaHistory]_vars

\* C7 witness: after a first roll that committed, a second roll found
\* nothing: the result list is empty and the history is the first roll's.
C7_Witness ==
    /\ rolls[1].notice = "found"
    /\ rolls[2].notice = "notfound"
    /\ gachaSpots = <<>>
    /\ allGachaHistory = rolls[1].selectedSpots

\* The first position of all that holds the identifier id.
FirstAt(all, id) ==
    CHOOSE j \in 1..Len(all) :
        all[j].id = id /\ \A k \in 1..(j - 1) : all[k].id /= id

\* C8: deduplication. Whatever candidate lists the three sample points of a
\* roll return, the merged list holds every identifier that occurs in a list,
\* each exactly once; its entry for an identifier is the first entry of the
\* concatenation with that identifier, the entries staying in that order;
\* and the identifiers of the final selection are pairwise distinct.
C8_DedupKeepsFirst ==
    ret /= NoCall =>
        LET all == call.spots[1] \o call.spots[2] \o call.spots[3]
            merged == ret.uniqueSpots
        IN /\ ret.allSpots = all
           /\ Ids(merged) = Ids(all)
           /\ DistinctIds(merged)
           /\ \A i \in 1..Len(merged) :
                  merged[i] = all[FirstAt(all, merged[i].id)]
           /\ \A i, j \in 1..Len(merged) :
                  i < j => FirstAt(all, merged[i].id) < FirstAt(all, merged[j].id)
           /\ DistinctIds(ret.selectedSpots)
           /\ Ids(ret.selectedSpots) \subseteq Ids(all)

\* C8 witness: the first and the third list hold node 2 under different
\* names, the merged list holds the first list's entry after another spot,
\* and the selection holds 3 spots.
C8_Witness ==
    /\ ret /= NoCall
    /\ call.fn = "gather"
    /\ \E i \in 1..Len(call.spots[1]), j \in 1..Len(call.spots[3]) :
          /\ call.spots[1][i].id = call.spots[3][j].id
          /\ call.spots[1][i] /= call.spots[3][j]
          /\ i > 1
          /\ i <= Len(ret.uniqueSpots)
          /\ ret.uniqueSpots[i] = call.spots[1][i]
    /\ Len(ret.uniqueSpots) = SelectedSpotCount
    /\ Len(ret.selectedSpots) = SelectedSpotCount

\* The entries of spots whose identifier is not one of ids.
RECURSIVE Without(_, _)
Without(spots, ids) ==
    IF spots = <<>> THEN <<>>
    ELSE (IF Head(spots).id \in ids THEN <<>> ELSE <<Head(spots)>>)
         \o Without(Tail(spots), ids)

\* C9: history merge by identifier. No two history entries share an
\* identifier; a committing roll appends to the history exactly those of its
\* selected spots whose identifier the history does not hold; and the history
\* changes in no other way than by a reset emptying it.
C9_HistoryMergedById ==
    /\ []DistinctIds(allGachaHistory)
    /\ [][\A r \in RollIds : Commits(r) =>
             allGachaHistory' =
                 allGachaHistory
                     \o Without(rolls'[r].selectedSpots, Ids(allGachaHistory))]_vars
    /\ [][allGachaHistory' /= allGachaHistory =>
             \/ allGachaHistory' = <<>>
             \/ \E r \in RollIds : Commits(r)]_vars

\* C9 witness: two rolls have committed selections that share an identifier,
\* and the history holds the first selection followed by the new spots only.
C9_Witness ==
    /\ rolls[1].notice = "found"
    /\ rolls[2].notice = "found"
    /\ Ids(rolls[1].selectedSpots) \cap Ids(rolls[2].selectedSpots) /= {}
    /\ Len(allGachaHistory) > Len(rolls[1].selectedSpots)
    /\ SubSeq(allGachaHistory, 1, Len(rolls[1].selectedSpots))
           = rolls[1].selectedSpots

\* C10: random selection of k items. Whatever the random draws, both
\* selections return a list of at most k items unchanged, and from a longer
\* list return exactly k items found at pairwise distinct positions of it.
C10_SelectsKDistinct ==
    ret /= NoCall =>
        LET list == call.list
            k == call.count
            out == ret.out
        IN IF Len(list) <= k THEN out = list
           ELSE /\ Len(out) = k
                /\ \E f \in [1..k -> 1..Len(list)] :
                      /\ \A i, j \in 1..k : f[i] = f[j] => i = j
                      /\ \A i \in 1..k : out[i] = list[f[i]]

\* C10 witness: 3 of 5 spots have been selected, and they are not the first
\* 3 of the list; and 3 of 5 sample points likewise.
C10_Witness ==
    /\ ret /= NoCall
    /\ call.fn \in {"selectRandomMidPoints", "selectRandomSpotsWithoutRating"}
    /\ Len(call.list) = 5
    /\ call.count = 3
    /\ Len(ret.out) = 3
    /\ \A i \in 1..3 : ret.out[i] /= call.list[i]
    /\ \A i, j \in 1..5 : call.list[i] = call.list[j] => i = j

\* A list of Spots that carry the fields of the rating.
IsRated(spots) ==
    \A i \in 1..Len(spots) :
        /\ spots[i].stars \in 1..3
        /\ spots[i].distanceFromRoute \in Nat \cup {NaN}

\* C11: at most 3 spots are shown per gacha. The result list never has more
\* than 3 entries, and whenever it gets a new non-empty value a roll commits
\* in that step and every entry is a member of that roll's rated candidate
\* list, which has no two entries of one identifier.
C11_AtMostThreeOfRatedSet ==
    /\ [](Len(gachaSpots) <= 3)
    /\ [][(gachaSpots' /= gachaSpots /\ gachaSpots' /= <<>>) =>
            \E r \in RollIds :
                /\ Commits(r)
                /\ DistinctIds(rolls'[r].ratedSpots)
                /\ IsRated(rolls'[r].ratedSpots)
                /\ \A i \in 1..Len(gachaSpots') :
                      \E k \in 1..Len(rolls'[r].ratedSpots) :
                          gachaSpots'[i] = rolls'[r].ratedSpots[k]]_vars

\* C11 witness: a roll with four rated candidates has returned, and the
\* result list shows three of them.
C11_Witness ==
    \E r \in RollIds :
        /\ rolls[r].pc = "done"
        /\ Len(rolls[r].ratedSpots) = 4
        /\ Len(gachaSpots) = 3
        /\ gachaSpots = rolls[r].selectedSpots
        /\ \A i \in 1..3 : \E k \in 1..4 : gachaSpots[i] = rolls[r].ratedSpots[k]

\* The selected points are three different entries of the list of points.
ThreeOutOf(selected, points) ==
    /\ Len(selected) = 3
    /\ \E f \in [1..3 -> 1..Len(points)] :
          /\ \A i, j \in 1..3 : f[i] = f[j] => i = j
          /\ \A i \in 1..3 : selected[i] = points[f[i]]

\* C12: per roll, 3 different ones of the 5 interpolated points are queried,
\* with one request per selected point: the first is issued at the trigger,
\* every further one in the step in which the previous request completes or
\* fails and for the next selected point, never for the same point again,
\* and the roll returns after exactly 3 requests.
C12_ThreeRequestsInSequence ==
    [][\A r \in RollIds :
          /\ Triggers(r) =>
                /\ ThreeOutOf(rolls'[r].selectedMidPoints,
                              [i \in 1..5 |->
                                  Pt(startPoint.lat
                                         + (i * (endPoint.lat - startPoint.lat)) \div 6,
                                     startPoint.lng
                                         + (i * (endPoint.lng - startPoint.lng)) \div 6)])
                /\ rolls'[r].queried = 1
                /\ rolls'[r].index = 1
                /\ rolls'[r].pc = "fetch"
                /\ rolls'[r].request.center = rolls'[r].selectedMidPoints[1]
          /\ (Issues(r) /\ ~Triggers(r)) =>
                /\ InFlight(r)
                /\ rolls'[r].pc = "fetch"
                /\ rolls'[r].queried = rolls[r].queried + 1
                /\ rolls'[r].index = rolls[r].index + 1
                /\ rolls'[r].selectedMidPoints = rolls[r].selectedMidPoints
                /\ rolls'[r].request.center
                      = rolls[r].selectedMidPoints[rolls'[r].index]
          /\ (InFlight(r) /\ ~Issues(r) /\ ~Returns(r)) =>
                /\ rolls'[r].request = rolls[r].request
                /\ rolls'[r].index = rolls[r].index
          /\ Returns(r) =>
                /\ rolls[r].index = 3
                /\ rolls'[r].queried = 3]_vars

\* C12 witness: a roll whose second request failed has issued its third
\* request, for the third selected point.
C12_Witness ==
    \E r \in RollIds :
        /\ rolls[r].pc = "fetch"
        /\ rolls[r].queried = 3
        /\ rolls[r].index = 3
        /\ Len(rolls[r].results) = 2
        /\ rolls[r].results[2] = Threw
        /\ rolls[r].request.center = rolls[r].selectedMidPoints[3]

\* The filters of a category, as the table states them.
FiltersOf(category) ==
    CASE category = "restaurant" ->
             {<<"amenity", "restaurant">>, <<"amenity", "fast_food">>}
      [] category = "cafe" -> {<<"amenity", "cafe">>}
      [] category = "tourist_attraction" ->
             {<<"tourism", "attraction">>, <<"tourism", "museum">>}
      [] category = "gas_station" -> {<<"amenity", "fuel">>}
      [] category = "shop" -> {<<"shop">>}

\* The filters of a query text, as a set.
FilterSet(filters) == {filters[i] : i \in 1..Len(filters)}

\* C17: the tag filters of a query are fixed per category (restaurant:
\* amenity restaurant and fast_food; cafe: amenity cafe only;
\* tourist_attraction: tourism attraction and museum; gas_station: amenity
\* fuel; shop: a shop tag; all: the union of these five), and every request
\* of a roll has the filters of the category that was selected when the roll
\* was triggered.
C17_FiltersByTriggerCategory ==
    /\ [](/\ \A category \in Categories \ {"all"} :
                FilterSet(QueryFilters(category)) = FiltersOf(category)
          /\ FilterSet(QueryFilters("all"))
                = UNION {FiltersOf(category) : category \in Categories \ {"all"}})
    /\ [][\A r \in RollIds :
             /\ Triggers(r) => rolls'[r].selectedCategory = selectedCategory
             /\ (InFlight(r) /\ ~Returns(r)) =>
                   rolls'[r].selectedCategory = rolls[r].selectedCategory
             /\ (Triggers(r) \/ Issues(r)) =>
                   /\ rolls'[r].selectedCategory \in Categories \ {"all"} =>
                         FilterSet(rolls'[r].request.filters)
                             = FiltersOf(rolls'[r].selectedCategory)
                   /\ rolls'[r].selectedCategory = "all" =>
                         FilterSet(rolls'[r].request.filters)
                             = UNION {FiltersOf(category) :
                                         category \in Categories \ {"all"}}]_vars

\* C17 witness: a roll triggered under restaurant has issued its second
\* request with the restaurant filters after the user changed the select to
\* cafe, and a later roll queries with the cafe filter.
C17_Witness ==
    /\ selectedCategory = "cafe"
    /\ \E r \in RollIds :
          /\ rolls[r].pc = "fetch"
          /\ rolls[r].index = 2
          /\ rolls[r].selectedCategory = "restaurant"
          /\ FilterSet(rolls[r].request.filters) = FiltersOf("restaurant")

\* C20: the map keeps the user's pan and zoom across data updates. In every
\* step that changes the start point, the end point or the result list (a
\* click that sets a point, a roll that clears or commits results, a reset)
\* the center and zoom of the map after the step are those before it.
C20_ViewKeptAcrossUpdates ==
    [][(startPoint' /= startPoint \/ endPoint' /= endPoint
            \/ gachaSpots' /= gachaSpots) => mapView' = mapView]_vars

\* C13: a spot flagged as a major chain gets exactly 1 star, whatever the
\* start/end pair, its distance from the route, its position before or past
\* the route, its distance from the start and its hours, phone and website.
C13_MajorChainOneStar ==
    (ret /= NoCall /\ call.fn = "calculateSpotRating" /\ call.spot.isMajorChain)
        => ret.stars = 1

\* C13 witness: a major chain that no penalty applies to (on the route, not
\* near the start, not backward, all contact fields present) was rated 1 star.
C13_Witness ==
    /\ ret /= NoCall
    /\ call.fn = "calculateSpotRating"
    /\ call.spot.isMajorChain
    /\ ~call.spot.isChain
    /\ call.spot.distanceFromRoute = 0
    /\ call.spot.lat = InitialStartPoint.lat - 600
    /\ call.endPoint = InitialEndPoint
    /\ call.spot.openingHours = "Mo-Su"
    /\ call.spot.phone = "03"
    /\ call.spot.website = "https"
    /\ ret.stars = 1

\* The penalties of the rating that apply to a spot, as a sequence of
\* points: backward, distance from the route, chain, near the start, and
\* missing hours, phone and website.
Penalties(spot, start, end) ==
    <<IF IsBackward(spot, start, end) THEN 40 ELSE 0,
      IF spot.distanceFromRoute > 25000000 THEN 30
      ELSE IF spot.distanceFromRoute > 18000000 THEN 20 ELSE 0,
      IF spot.isChain THEN 20 ELSE 0,
      IF CalculateDistance(spot, start) <= 3000000 THEN 25 ELSE 0,
      IF spot.openingHours \in {NoTag, ""} THEN 10 ELSE 0,
      IF spot.phone \in {NoTag, ""} THEN 10 ELSE 0,
      IF spot.website \in {NoTag, ""} THEN 10 ELSE 0>>

RECURSIVE Sum(_)
Sum(numbers) ==
    IF numbers = <<>> THEN 0 ELSE Head(numbers) + Sum(Tail(numbers))

\* C14: for a spot that is not of a major chain the score is 100 minus the
\* sum of the penalties that apply (backward 40; further than 2.5 km from
\* the route 30, otherwise further than 1.8 km 20; chain 20; within 0.3 km of
\* the start 25; missing hours, phone, website 10 each); the rating is 3
\* stars from 70 points, 2 stars from 30 points and 1 star below; a spot
\* with no penalty has 100 points and 3 stars.
C14_ScoreAndStars ==
    (ret /= NoCall /\ call.fn = "calculateSpotRating" /\ ~call.spot.isMajorChain)
        => LET penalties == Penalties(call.spot, call.startPoint, call.endPoint)
           IN /\ ret.score = 100 - Sum(penalties)
              /\ ret.stars = (IF ret.score >= 70 THEN 3
                              ELSE IF ret.score >= 30 THEN 2 ELSE 1)
              /\ (\A i \in 1..Len(penalties) : penalties[i] = 0)
                    => ret.score = 100 /\ ret.stars = 3

\* C14 witness: a spot past the end of the route and 2.5 km and more from
\* it, with nothing else against it, was rated 30 points and 2 stars.
C14_Witness ==
    /\ ret /= NoCall
    /\ call.fn = "calculateSpotRating"
    /\ ~call.spot.isMajorChain
    /\ IsBackward(call.spot, call.startPoint, call.endPoint)
    /\ call.spot.distanceFromRoute > 25000000
    /\ ret.score = 30
    /\ ret.stars = 2

\* The radius that the tiers give for a distance d.
StepRadius(d) ==
    IF d <= 1 * Km THEN 1500
    ELSE IF 1 * Km < d /\ d <= 3 * Km THEN 2000
    ELSE IF 3 * Km < d /\ d <= 10 * Km THEN 3000
    ELSE IF 10 * Km < d /\ d <= 20 * Km THEN 5000
    ELSE 7000

C16_PointsAtSixths ==
    (ret /= NoCall /\ call.fn = "calculateNearDestinationPoints") =>
        /\ Len(ret.points) = 5
        /\ \A i \in 1..5 :
              /\ 6 * (ret.points[i].lat - call.start.lat)
                    = i * (call.end.lat - call.start.lat)
              /\ 6 * (ret.points[i].lng - call.start.lng)
                    = i * (call.end.lng - call.start.lng)
              /\ call.start /= call.end
                    => /\ ret.points[i] /= call.start
                       /\ ret.points[i] /= call.end
                       /\ \A j \in 1..5 :
                             ret.points[i] = ret.points[j] => i = j

\* C16 witness: the points between Shinjuku and Shibuya station were
\* computed; the third one is the midpoint.
C16_Witness ==
    /\ ret /= NoCall
    /\ call.fn = "calculateNearDestinationPoints"
    /\ call.start = InitialStartPoint
    /\ call.end = InitialEndPoint
    /\ Len(ret.points) = 5
    /\ ret.points[3] = Pt(2140428, 8381799)

\* The number that a sequence of decimal digits denotes.
RECURSIVE DecimalValue(_)
DecimalValue(chars) ==
    IF chars = <<>> THEN 0
    ELSE DecimalValue(SubSeq(chars, 1, Len(chars) - 1)) * 10
         + (CHOOSE v \in 0..9 :
                <<"0", "1", "2", "3", "4", "5", "6", "7", "8", "9">>[v + 1]
                    = chars[Len(chars)])

\* The elements of a response body that carry a non-empty name, in order.
Named(elements) == SelectSeq(elements, LAMBDA e : e.tags.name \notin {NoText, <<>>})

\* C18: on a successful response the query returns one Spot per element with
\* a non-empty name, in response order, and none for the other elements; the
\* identifier of a Spot is the type of its element, "_" and the decimal id,
\* so that two Spots share an identifier exactly when their elements have the
\* same type and the same id.
C18_OneSpotPerNamedElement ==
    (ret /= NoCall /\ call.fn = "convertToSpots") =>
        LET named == Named(call.elements)
            spots == ret.spots
        IN /\ Len(spots) = Len(named)
           /\ \A i \in 1..Len(spots) :
                 /\ spots[i].name = named[i].tags.name
                 /\ spots[i].lat = named[i].lat
                 /\ spots[i].lng = named[i].lon
                 /\ \E k \in 1..Len(spots[i].id) :
                       /\ spots[i].id[k] = "_"
                       /\ SubSeq(spots[i].id, 1, k - 1) = named[i].type
                       /\ k < Len(spots[i].id)
                       /\ DecimalValue(SubSeq(spots[i].id, k + 1, Len(spots[i].id)))
                              = named[i].id
           /\ \A i, j \in 1..Len(spots) :
                 spots[i].id = spots[j].id
                     <=> (named[i].type = named[j].type /\ named[i].id = named[j].id)

\* C18 witness: a body of three elements, the second without a name, has
\* given two Spots whose identifiers differ although the characters of type
\* and id, put together, are the same ("n" and 12, "n1" and 2).
C18_Witness ==
    /\ ret /= NoCall
    /\ call.fn = "convertToSpots"
    /\ Len(call.elements) = 3
    /\ call.elements[2].tags.name \in {NoText, <<>>}
    /\ Len(ret.spots) = 2
    /\ call.elements[1].type \o Decimal(call.elements[1].id)
           = call.elements[3].type \o Decimal(call.elements[3].id)
    /\ ret.spots[1].id /= ret.spots[2].id

\* The category that the stated priority gives the tags, a shop tag counting
\* when the element carries one, whatever its value.
CategoryByPriority(tags, hasShop) ==
    IF tags.amenity \in {"restaurant", "fast_food"} THEN {"restaurant"}
    ELSE IF tags.amenity = "cafe" THEN {"cafe"}
    ELSE IF tags.tourism \in {"attraction", "museum"} THEN {"tourist_attraction"}
    ELSE IF tags.amenity = "fuel" THEN {"gas_station"}
    ELSE IF hasShop THEN {"shop"}
    ELSE {"restaurant", "tourist_attraction", "gas_station", "shop", "cafe", "all"}

C21_DiscardedOnReset ==
    (wasReset /\ (startPoint = NULL \/ endPoint = NULL)) =>
        (gachaSpots = <<>> /\ allGachaHistory = <<>>)

\* C22: after the rating every candidate of a roll has 1, 2 or 3 stars and a
\* distance from the route that is a number and not negative, for every
\* start/end pair, the route whose start and end are one point included.
C22_RatingWellDefined ==
    \A r \in RollIds :
        \A i \in 1..Len(rolls[r].ratedSpots) :
            /\ rolls[r].ratedSpots[i].stars \in {1, 2, 3}
            /\ rolls[r].ratedSpots[i].distanceFromRoute /= NaN
            /\ rolls[r].ratedSpots[i].distanceFromRoute >= 0

\* C23: at most one roll is in progress at any time. A roll is triggered only
\* with both points set and the loading flag clear; the flag is set as long
\* as the roll is in flight; and while a roll is in flight no roll can be
\* triggered, whatever resets, map clicks and category changes happen.
C23_OneRollAtATime ==
    /\ [](/\ \A r1, r2 \in RollIds : (InFlight(r1) /\ InFlight(r2)) => r1 = r2
          /\ \A r \in RollIds : InFlight(r) => (isLoading /\ ~CanRollGacha))
    /\ [][\A r \in RollIds :
             Triggers(r) =>
                 /\ startPoint /= NULL
                 /\ endPoint /= NULL
                 /\ ~isLoading
                 /\ \A other \in RollIds : ~InFlight(other)]_vars

\* C23 witness: during a roll the user has reset, set both points again and
\* changed the category; the roll is still in flight and no roll can be
\* triggered.
C23_Witness ==
    /\ wasReset
    /\ startPoint /= NULL
    /\ endPoint /= NULL
    /\ selectedCategory = "cafe"
    /\ rollCount < MaxRolls
    /\ ~CanRollGacha
    /\ \E r \in RollIds :
          /\ InFlight(r)
          /\ rolls[r].selectedCategory = "restaurant"
          /\ rolls[r].startPoint = InitialStartPoint

\* C24: in every reachable state, after any clicks, rolls and resets, every
\* identifier of the current result list is an identifier of the history.
C24_ResultsInHistory == Ids(gachaSpots) \subseteq Ids(allGachaHistory)

\* C24 witness: after two committed rolls the result list holds the second
\* selection, and the history holds it and a spot of the first one besides.
C24_Witness ==
    /\ \A r \in RollIds : rolls[r].notice = "found"
    /\ gachaSpots /= <<>>
    /\ Ids(gachaSpots) \subseteq Ids(allGachaHistory)
    /\ Ids(allGachaHistory) /= Ids(gachaSpots)

\* An element with these tags is selected by the node filter: <<key, value>>
\* asks for that value of the tag, <<key>> for the presence of the tag.
Matches(tags, filter) ==
    IF Len(filter) = 2 THEN tags[filter[1]] = filter[2]
    ELSE tags[filter[1]] /= NoTag

\* C25: for each of the five specific categories, every Spot made from an
\* element that matches a query filter of the category has that category,
\* whatever other tags the element carries.
C25_CategoryOfQueriedElement ==
    (ret /= NoCall /\ call.fn = "convertToSpots") =>
        \A i \in 1..Len(ret.spots) :
            \A category \in Categories \ {"all"} :
                (\E filter \in FilterSet(QueryFilters(category)) :
                     Matches(Named(call.elements)[i].tags, filter))
                    => ret.spots[i].category = category

=============================================================================
